---- MODULE Spec2Model ----
(***************************************************************************)
(* Model of lib/index.js: the policy registry (loadPolicies/addPolicy,     *)
(* reset), the memoized apply-point resolver, the per-stage extension      *)
(* handlers, the serial executor runPolicies and the aggregate built by    *)
(* exports.parallel.                                                       *)
(*                                                                         *)
(* Values.  A policy name is a string.  A callable is a record             *)
(*   [t, name, applyPoint, hasRuns, runs, handler]                         *)
(* t = "function"; applyPoint is "undefined", "" (falsy but defined), a    *)
(* stage or some other string; hasRuns/runs is the .runs metadata;         *)
(* handler is "none" (plain policy), "default" or "custom" (aggregate).    *)
(* Route entries are callables, or records with t = "string", "array",     *)
(* "null", "other".  Error objects, messages and replies are records       *)
(* [type, by].                                                             *)
(***************************************************************************)
EXTENDS Naturals, Sequences, FiniteSets, TLC

\* ------------------------------------------------------------------ bounds
MaxRouteLen == 3
MaxFairRouteLen == 2
MaxExt == 2
MaxArgs == 3

\* --------------------------------------------------------------- constants
aApplicablePoints ==
    << "onRequest", "onPreAuth", "onPostAuth",
       "onPreHandler", "onPostHandler", "onPreResponse" >>

Stages == { aApplicablePoints[k] : k \in DOMAIN aApplicablePoints }

\* options.defaultApplyPoint || 'onPreHandler'
FallbackApplyPoint == "onPreHandler"

\* ----------------------------------------------------------------- helpers
Range(s) == { s[k] : k \in DOMAIN s }

Includes(s, x) == \E k \in DOMAIN s : s[k] = x

IsUniq(s) == \A j, k \in DOMAIN s : s[j] = s[k] => j = k

\* JavaScript truthiness of an applyPoint property
Truthy(ap) == ap # "undefined" /\ ap # ""

EmptyMap == [x \in {} |-> x]

MapPut(m, k, v) == [x \in (DOMAIN m) \cup {k} |-> IF x = k THEN v ELSE m[x]]

\* ------------------------------------------------------------------ values
NullV == [type |-> "null", by |-> "null"]

Policy(n, ap) ==
    [t |-> "function", name |-> n, applyPoint |-> ap,
     hasRuns |-> FALSE, runs |-> << >>, handler |-> "none"]

\* ---------------------------------------------------------------- registry
EmptyData ==
    [names |-> << >>,
     rawPolicies |-> EmptyMap,
     setHandlers |-> {},
     points |-> [s \in Stages |-> EmptyMap]]

NoExt == [s \in Stages |-> 0]

hasValidApplyPoint(oPolicy) ==
    ~Truthy(oPolicy.applyPoint) \/ Includes(aApplicablePoints, oPolicy.applyPoint)

\* a directory entry: the file name (stem + whether it ends in .js) and the
\* value the file exports
File(stem, js, ap) == [stem |-> stem, js |-> js, policy |-> Policy(stem, ap)]

DuplicateError(n) == [type |-> "duplicate", by |-> n]
ApplyPointError(ap) == [type |-> "incorrectApplyPoint", by |-> ap]

\* (variant: the name is not looked up before the policy is stored)
addPolicy_NoDuplicateCheck(data, ext, dflt, file) ==
    LET name == file.stem
        policy == file.policy
        applyPoint == IF Truthy(policy.applyPoint) THEN policy.applyPoint ELSE dflt
    IN  IF ~file.js \/ ~hasValidApplyPoint(policy) \/ policy.applyPoint = ""
        THEN [data |-> data, ext |-> ext, err |-> NullV]
        ELSE [data |->
                [names |-> Append(data.names, name),
                 rawPolicies |-> MapPut(data.rawPolicies, name, policy),
                 setHandlers |-> data.setHandlers \cup {applyPoint},
                 points |-> [data.points EXCEPT
                               ![applyPoint] = MapPut(@, name, policy)]],
              ext |-> IF applyPoint \in data.setHandlers
                      THEN ext
                      ELSE [ext EXCEPT ![applyPoint] = @ + 1],
              err |-> NullV]

\* (variant: server.ext is called for every policy that is stored)
addPolicy_AlwaysExt(data, ext, dflt, file) ==
    LET name == file.stem
        policy == file.policy
        applyPoint == IF Truthy(policy.applyPoint) THEN policy.applyPoint ELSE dflt
    IN  IF ~file.js
        THEN [data |-> data, ext |-> ext, err |-> NullV]
        ELSE IF Includes(data.names, name)
        THEN [data |-> data, ext |-> ext, err |-> DuplicateError(name)]
        ELSE IF ~hasValidApplyPoint(policy)
        THEN [data |-> data, ext |-> ext, err |-> ApplyPointError(policy.applyPoint)]
        ELSE IF policy.applyPoint = "undefined" \/ Truthy(policy.applyPoint)
        THEN [data |->
                [names |-> Append(data.names, name),
                 rawPolicies |-> MapPut(data.rawPolicies, name, policy),
                 setHandlers |-> data.setHandlers \cup {applyPoint},
                 points |-> [data.points EXCEPT
                               ![applyPoint] = MapPut(@, name, policy)]],
              ext |-> [ext EXCEPT ![applyPoint] = @ + 1],
              err |-> NullV]
        ELSE [data |-> data, ext |-> ext, err |-> NullV]

\* addPolicy(filename, addPolicyNext) against registry `data`, host hooks
\* `ext` and options.defaultApplyPoint `dflt`.
\* Result: the registry, the hooks and the error handed to addPolicyNext.
addPolicy(data, ext, dflt, file) ==
    LET name == file.stem
        policy == file.policy
        applyPoint == IF Truthy(policy.applyPoint) THEN policy.applyPoint ELSE dflt
    IN  IF ~file.js
        THEN [data |-> data, ext |-> ext, err |-> NullV]
        ELSE IF Includes(data.names, name)
        THEN [data |-> data, ext |-> ext, err |-> DuplicateError(name)]
        ELSE IF ~hasValidApplyPoint(policy)
        THEN [data |-> data, ext |-> ext, err |-> ApplyPointError(policy.applyPoint)]
        ELSE IF policy.applyPoint = "undefined" \/ Truthy(policy.applyPoint)
        THEN [data |->
                [names |-> Append(data.names, name),
                 rawPolicies |-> MapPut(data.rawPolicies, name, policy),
                 setHandlers |-> data.setHandlers \cup {applyPoint},
                 points |-> [data.points EXCEPT
                               ![applyPoint] = MapPut(@, name, policy)]],
              ext |-> IF applyPoint \in data.setHandlers
                      THEN ext
                      ELSE [ext EXCEPT ![applyPoint] = @ + 1],
              err |-> NullV]
        ELSE [data |-> data, ext |-> ext, err |-> NullV]

\* loadPolicies: Items.serial over the directory listing, stopping at the
\* first error
RECURSIVE loadPolicies(_, _, _, _)
loadPolicies(data, ext, dflt, policyFiles) ==
    IF policyFiles = << >>
    THEN [data |-> data, ext |-> ext, err |-> NullV]
    ELSE LET r == addPolicy(data, ext, dflt, Head(policyFiles))
         IN  IF r.err # NullV
             THEN r
             ELSE loadPolicies(r.data, r.ext, dflt, Tail(policyFiles))

\* ---------------------------------------------------------------- resolver
Threw == [ok |-> FALSE, applyPoint |-> "undefined"]

\* the candidate stage: the first stage, in enumeration order, whose bucket
\* holds sFirstPolicy ("undefined" when there is none)
FirstApplyPoint(data, sFirstPolicy) ==
    LET hits == { k \in DOMAIN aApplicablePoints :
                    sFirstPolicy \in DOMAIN data.points[aApplicablePoints[k]] }
    IN  IF hits = {} THEN "undefined"
        ELSE aApplicablePoints[CHOOSE k \in hits : \A j \in hits : k <= j]

\* (variant: only the first name's bucket is looked at)
resolveApplyPoint_FirstOnly(data, aPolicyNames) ==
    IF aPolicyNames = << >> THEN Threw
    ELSE IF Cardinality(Range(data.names) \cap Range(aPolicyNames)) # Len(aPolicyNames)
    THEN Threw
    ELSE LET applyPoint == FirstApplyPoint(data, aPolicyNames[1])
         IN  IF applyPoint = "undefined" THEN Threw
             ELSE [ok |-> TRUE, applyPoint |-> applyPoint]

\* the function handed to _.memoize: the asserts and the stage they let through
resolveApplyPoint(data, aPolicyNames) ==
    IF aPolicyNames = << >> THEN Threw
    ELSE IF Cardinality(Range(data.names) \cap Range(aPolicyNames)) # Len(aPolicyNames)
    THEN Threw
    ELSE LET applyPoint == FirstApplyPoint(data, aPolicyNames[1])
         IN  IF applyPoint = "undefined" THEN Threw
             ELSE IF Cardinality((DOMAIN data.points[applyPoint]) \cap Range(aPolicyNames))
                        # Len(aPolicyNames)
             THEN Threw
             ELSE [ok |-> TRUE, applyPoint |-> applyPoint]

\* (variant: calls are filed under the first name of the array)
MemoKey_FirstName(aPolicyNames) == SubSeq(aPolicyNames, 1, 1)

\* the key _.memoize files a call under: its first argument, the array of
\* names.  Arrays holding the same names in the same order are one key here;
\* the names of the model hold no comma, so the joined string
\* 'policy1,...,policyN' identifies the same arrays.
MemoKey(aPolicyNames) == aPolicyNames

\* (variant: a call that throws leaves an entry in the cache)
determineAggregateApplyPoint_StoreThrown(data, cache, aPolicyNames) ==
    LET key == MemoKey(aPolicyNames)
    IN  IF key \in DOMAIN cache
        THEN [ok |-> TRUE, applyPoint |-> cache[key], cache |-> cache]
        ELSE LET r == resolveApplyPoint(data, aPolicyNames)
             IN  [ok |-> r.ok, applyPoint |-> r.applyPoint,
                  cache |-> MapPut(cache, key, r.applyPoint)]

\* determineAggregateApplyPoint: the memoized resolver.  A call that throws
\* stores nothing.
determineAggregateApplyPoint(data, cache, aPolicyNames) ==
    LET key == MemoKey(aPolicyNames)
    IN  IF key \in DOMAIN cache
        THEN [ok |-> TRUE, applyPoint |-> cache[key], cache |-> cache]
        ELSE LET r == resolveApplyPoint(data, aPolicyNames)
             IN  IF r.ok
                 THEN [ok |-> TRUE, applyPoint |-> r.applyPoint,
                       cache |-> MapPut(cache, key, r.applyPoint)]
                 ELSE [ok |-> FALSE, applyPoint |-> "undefined", cache |-> cache]

\* ---------------------------------------------------------------- parallel
NameArg(n) == [t |-> "string", name |-> n]
HandlerArg == [t |-> "function", name |-> "errorHandler"]

NameArgs(ns) == [k \in DOMAIN ns |-> NameArg(ns[k])]

\* exports.parallel(policy1, ..., [cb]): the aggregate it returns, or the
\* failed assertion
parallel(args) ==
    IF Len(args) = 0
    THEN [ok |-> FALSE, fn |-> NullV]
    ELSE LET custom == args[Len(args)].t = "function"
             policyArgs == IF custom THEN SubSeq(args, 1, Len(args) - 1) ELSE args
             policyNames == [k \in DOMAIN policyArgs |-> policyArgs[k].name]
         IN  IF ~IsUniq(policyNames)
             THEN [ok |-> FALSE, fn |-> NullV]
             ELSE [ok |-> TRUE,
                   fn |-> [t |-> "function", name |-> "aggregatePolicy",
                           applyPoint |-> "undefined",
                           hasRuns |-> TRUE, runs |-> policyNames,
                           handler |-> IF custom THEN "custom" ELSE "default"]]

\* ------------------------------------------------------------ route entries
StringEntry(n) ==
    [t |-> "string", name |-> n, applyPoint |-> "undefined",
     hasRuns |-> FALSE, runs |-> << >>, handler |-> "none"]

ArrayEntry(ns) ==
    [t |-> "array", name |-> "array", applyPoint |-> "undefined",
     hasRuns |-> FALSE, runs |-> ns, handler |-> "none"]

NullEntry ==
    [t |-> "null", name |-> "null", applyPoint |-> "undefined",
     hasRuns |-> FALSE, runs |-> << >>, handler |-> "none"]

OtherEntry ==
    [t |-> "other", name |-> "other", applyPoint |-> "undefined",
     hasRuns |-> FALSE, runs |-> << >>, handler |-> "none"]

\* an aggregate built by the route's author with parallel(), with the
\* applyPoint property the author then set on it ("undefined": none)
Aggregate(args, ap) == [parallel(args).fn EXCEPT !.applyPoint = ap]

\* ------------------------------------------------------------------- boom
notImplemented(n) == [type |-> "notImplemented", by |-> n]
badImplementation(x) == [type |-> "badImplementation", by |-> x]
forbidden(message) == [type |-> "forbidden", by |-> message.by]
ContinueReply == [type |-> "continue", by |-> "null"]

\* ------------------------------------------------- handler: classification
\* the test guarding the 'Missing policy' reply
LooksMissing(data, xRoutePolicy) == Includes(data.names, xRoutePolicy)

\* state of the reduce over the route's list: aTmpList, the memoize cache,
\* bRepliedWithError with the reply made, whether an assertion threw, and
\* how many entries got past the 'Already replied' test
StartAcc(cache) ==
    [list |-> << >>, cache |-> cache, bRepliedWithError |-> FALSE,
     reply |-> NullV, threw |-> FALSE, seen |-> 0]

ReplyAcc(acc, err) == [acc EXCEPT !.bRepliedWithError = TRUE, !.reply = err]

\* the string branch
classifyString(data, oApplyPoint, acc, xRoutePolicy) ==
    IF LooksMissing(data, xRoutePolicy.name)
    THEN ReplyAcc(acc, notImplemented(xRoutePolicy.name))
    ELSE IF xRoutePolicy.name \in DOMAIN data.points[oApplyPoint]
    THEN [acc EXCEPT !.list = Append(@, data.points[oApplyPoint][xRoutePolicy.name])]
    ELSE acc

\* (variant: the stage inferred for an aggregate is not used)
classifyFunction_NoInferredStage(data, dflt, oApplyPoint, acc, xRoutePolicy, ap) ==
    LET effectiveApplyPoint ==
            IF Truthy(xRoutePolicy.applyPoint) THEN xRoutePolicy.applyPoint ELSE dflt
    IN  IF ~hasValidApplyPoint(xRoutePolicy)
        THEN ReplyAcc(acc, badImplementation(xRoutePolicy.applyPoint))
        ELSE IF effectiveApplyPoint = oApplyPoint
        THEN [acc EXCEPT !.list = Append(@, xRoutePolicy)]
        ELSE acc

\* the function branch; aAggregateApplyPoint is "undefined" unless the entry
\* came from a nested array
classifyFunction(data, dflt, oApplyPoint, acc, xRoutePolicy, aAggregateApplyPoint) ==
    LET infer == aAggregateApplyPoint = "undefined" /\ xRoutePolicy.hasRuns
                    /\ ~Truthy(xRoutePolicy.applyPoint)
        r == IF infer
             THEN determineAggregateApplyPoint(data, acc.cache, xRoutePolicy.runs)
             ELSE [ok |-> TRUE, applyPoint |-> aAggregateApplyPoint, cache |-> acc.cache]
        acc1 == [acc EXCEPT !.cache = r.cache]
        effectiveApplyPoint ==
            IF Truthy(xRoutePolicy.applyPoint) THEN xRoutePolicy.applyPoint
            ELSE IF r.applyPoint # "undefined" THEN r.applyPoint
            ELSE dflt
    IN  IF ~r.ok
        THEN [acc EXCEPT !.threw = TRUE]
        ELSE IF ~hasValidApplyPoint(xRoutePolicy)
        THEN ReplyAcc(acc1, badImplementation(xRoutePolicy.applyPoint))
        ELSE IF effectiveApplyPoint = oApplyPoint
        THEN [acc1 EXCEPT !.list = Append(@, xRoutePolicy)]
        ELSE acc1

\* one call of the reduce callback
classifyEntry(data, dflt, oApplyPoint, acc, xRoutePolicy) ==
    IF acc.bRepliedWithError \/ acc.threw
    THEN acc
    ELSE LET acc0 == [acc EXCEPT !.seen = @ + 1]
         IN
    IF xRoutePolicy.t = "array"
    THEN LET r == determineAggregateApplyPoint(data, acc0.cache, xRoutePolicy.runs)
             acc1 == [acc0 EXCEPT !.cache = r.cache]
             p == parallel(NameArgs(xRoutePolicy.runs))
         IN  IF ~r.ok
             THEN [acc0 EXCEPT !.threw = TRUE]
             ELSE IF r.applyPoint # oApplyPoint
             THEN acc1
             ELSE IF ~p.ok
             THEN [acc1 EXCEPT !.threw = TRUE]
             ELSE classifyFunction(data, dflt, oApplyPoint, acc1, p.fn, r.applyPoint)
    ELSE IF xRoutePolicy.t = "string"
    THEN classifyString(data, oApplyPoint, acc0, xRoutePolicy)
    ELSE IF xRoutePolicy.t = "function"
    THEN classifyFunction(data, dflt, oApplyPoint, acc0, xRoutePolicy, "undefined")
    ELSE IF xRoutePolicy.t # "null"
    THEN ReplyAcc(acc0, badImplementation("null"))
    ELSE acc0

\* aRoutePolicies.reduce(..., [])
RECURSIVE classify(_, _, _, _, _)
classify(data, dflt, oApplyPoint, acc, aRoutePolicies) ==
    IF aRoutePolicies = << >>
    THEN acc
    ELSE classify(data, dflt, oApplyPoint,
                  classifyEntry(data, dflt, oApplyPoint, acc, Head(aRoutePolicies)),
                  Tail(aRoutePolicies))

\* ---------------------------------------------------------------- outcomes
\* what a policy hands to its callback: (err, canContinue, message)
Continue == [err |-> NullV, canContinue |-> TRUE, message |-> NullV]
Reject(p) == [err |-> NullV, canContinue |-> FALSE,
              message |-> [type |-> "message", by |-> p]]
Fail(p) == [err |-> [type |-> "error", by |-> p], canContinue |-> FALSE,
            message |-> NullV]

Outcomes(p) == { Continue, Reject(p), Fail(p) }

Failing(result) == result.err # NullV \/ ~result.canContinue

\* ------------------------------------------------------------------- state
VARIABLES
    oData,              \* names, rawPolicies, setHandlers and the six buckets
    serverExt,          \* server.ext calls made on the host, per stage
    defaultApplyPoint,  \* server.plugins.mrhorse.defaultApplyPoint
    memoCache,          \* determineAggregateApplyPoint.cache
    loadErr,            \* the error loadPolicies last handed to its callback
    d,                  \* the request being dispatched
    d2,                 \* a second request, in flight at the same time
    clearedCache,       \* the entries the last cache.clear() dropped
    parallelCall        \* the last call of exports.parallel and what it gave

\* what the dispatch of one request, registration and reset leave alone
aux == << d2, clearedCache, parallelCall >>

vars == << oData, serverExt, defaultApplyPoint, memoCache, loadErr, d,
           d2, clearedCache, parallelCall >>

\* d.pending: "idle" (no request), "policy" (a plain policy of the serial
\* list is running), "subs" (sub-policies of an aggregate are running),
\* "custom" (a custom error handler has the results), "none" (nothing of
\* the dispatch is left to run), "threw" (an exception left the dispatch).
\* d.i counts the finished tasks of Items.serial; d.replies are the terminal
\* actions made on the reply interface, d.replied is reply._replied;
\* d.classified is the number of route entries the reduce looked at;
\* d.outstanding, d.results and d.order are the running aggregate's
\* sub-policies still running, the results stored and the callbacks in the
\* order they came; d.invoked, d.yields and d.handlerCalls record, per
\* position of the serial list, the invocations, the outcomes handed to
\* checkPolicy's callback and the calls of an aggregate's error handler.
IdleD ==
    [pending |-> "idle", stage |-> "undefined", route |-> << >>,
     hasRoute |-> FALSE, classified |-> 0,
     policiesToRun |-> << >>, ranPolicies |-> FALSE,
     replied |-> FALSE, replies |-> << >>, i |-> 0,
     outstanding |-> {}, results |-> EmptyMap, order |-> << >>,
     invoked |-> << >>, yields |-> << >>, handlerCalls |-> << >>]

\* exports.parallel has not been called
NoCall == [made |-> FALSE, args |-> << >>, ok |-> FALSE, fn |-> NullV]

\* reply(err) / reply.continue() on the host's reply interface
Reply(q, response) ==
    [q EXCEPT !.replied = TRUE, !.replies = Append(@, response)]

\* -------------------------------------------------------- serial executor
\* (variant: the callback replies with an error only)
serialCallback_NoContinue(q, err) ==
    IF ~q.replied /\ err # NullV THEN Reply(q, err) ELSE q

\* (variant: the callback replies without looking at reply._replied)
serialCallback_NoGuard(q, err) ==
    IF err # NullV THEN Reply(q, err) ELSE Reply(q, ContinueReply)

\* the callback runPolicies gives Items.serial
serialCallback(q, err) ==
    IF ~q.replied
    THEN IF err # NullV THEN Reply(q, err) ELSE Reply(q, ContinueReply)
    ELSE q

\* (variant: the wrapper passes the policy's error on as its own)
wrapPolicy_Propagate(result) == [err |-> result.err, val |-> result]

\* wrapPolicy's callback: what Items.parallel.execute is told and stores
wrapPolicy(result) == [err |-> NullV, val |-> result]

RECURSIVE iterate(_), serialDone(_, _), checkPolicyCallback(_, _),
          aggregatePolicy(_, _), executeCallback(_, _),
          defaultErrorHandler(_, _, _)

\* Items.serial: done(err) of the task at position q.i + 1
serialDone(q, err) ==
    IF err # NullV
    THEN serialCallback(q, err)
    ELSE LET q1 == [q EXCEPT !.i = @ + 1]
         IN  IF q1.i < Len(q1.policiesToRun)
             THEN iterate(q1)
             ELSE serialCallback(q1, NullV)

\* (variant: a refusal without an error goes on to the next policy)
checkPolicyCallback_NoForbidden(q, result) ==
    LET q1 == [q EXCEPT !.yields = Append(@, [at |-> q.i + 1, result |-> result])]
    IN  IF result.err # NullV
        THEN serialDone(q1, result.err)
        ELSE serialDone(q1, NullV)

\* the callback checkPolicy hands to the policy
checkPolicyCallback(q, result) ==
    LET q1 == [q EXCEPT !.yields = Append(@, [at |-> q.i + 1, result |-> result])]
    IN  IF result.err # NullV
        THEN serialDone(q1, result.err)
        ELSE IF result.canContinue
        THEN serialDone(q1, NullV)
        ELSE serialDone(q1, forbidden(result.message))

\* Items.serial: iterate() calls checkPolicy on the task at position q.i + 1
iterate(q) ==
    LET policy == q.policiesToRun[q.i + 1]
        q1 == [q EXCEPT !.invoked = Append(@, q.i + 1)]
    IN  IF policy.handler = "none"
        THEN [q1 EXCEPT !.pending = "policy"]
        ELSE aggregatePolicy(q1, policy)

\* aggregatePolicy: pick the named policies out of rawPolicies and start
\* them all; Items.parallel.execute calls back at once when there are none
aggregatePolicy(q, policy) ==
    LET policies == Range(policy.runs) \cap DOMAIN oData.rawPolicies
        q1 == [q EXCEPT !.outstanding = policies, !.results = EmptyMap,
                        !.order = << >>]
    IN  IF policies = {}
        THEN executeCallback(q1, policy)
        ELSE [q1 EXCEPT !.pending = "subs"]

\* the callback of Items.parallel.execute: errorHandler(policyNames, results, next)
executeCallback(q, policy) ==
    LET q1 == [q EXCEPT !.handlerCalls =
                  Append(@, [at |-> q.i + 1, results |-> q.results,
                             left |-> q.outstanding, order |-> q.order])]
    IN  IF policy.handler = "custom"
        THEN [q1 EXCEPT !.pending = "custom"]
        ELSE defaultErrorHandler([q1 EXCEPT !.pending = "none"], policy.runs, q.results)

\* (variant: the failure that came back first wins, not the first listed)
defaultErrorHandler_FirstCompleted(q, ranPolicies, results) ==
    LET stops == { k \in DOMAIN q.order : Failing(q.order[k].result) }
        first == CHOOSE k \in stops : \A j \in stops : k <= j
    IN  IF stops = {}
        THEN checkPolicyCallback(q, Continue)
        ELSE checkPolicyCallback(
                 checkPolicyCallback(q, q.order[first].result), Continue)

\* defaultErrorHandler: _.forEach stops at the first failing result (or
\* throws reading a result that is not there), then next(null, true) is
\* called whether or not the loop called next
defaultErrorHandler(q, ranPolicies, results) ==
    LET stops == { k \in DOMAIN ranPolicies :
                     \/ ranPolicies[k] \notin DOMAIN results
                     \/ Failing(results[ranPolicies[k]]) }
        first == CHOOSE k \in stops : \A j \in stops : k <= j
    IN  IF stops = {}
        THEN checkPolicyCallback(q, Continue)
        ELSE IF ranPolicies[first] \notin DOMAIN results
        THEN [q EXCEPT !.pending = "threw"]
        ELSE checkPolicyCallback(
                 checkPolicyCallback(q, results[ranPolicies[first]]), Continue)

\* runPolicies(aPoliciesToRun, oReq, fReply)
runPolicies(q) ==
    LET q1 == [q EXCEPT !.ranPolicies = TRUE, !.pending = "none"]
    IN  IF Len(q1.policiesToRun) = 0
        THEN serialCallback(q1, NullV)
        ELSE iterate(q1)

\* ------------------------------------------------------------ the handler
\* aHandlers[oApplyPoint](oReq, fReply) for a request whose route carries
\* aRoutePolicies (hasRoute FALSE: the route has no plugins.policies).
\* Result: the dispatch record and the memoize cache.
handler(q, data, dflt, cache, oApplyPoint, hasRoute, aRoutePolicies) ==
    LET acc == classify(data, dflt, oApplyPoint, StartAcc(cache), aRoutePolicies)
        q0 == [q EXCEPT !.stage = oApplyPoint, !.route = aRoutePolicies,
                        !.hasRoute = hasRoute, !.pending = "none",
                        !.classified = IF hasRoute THEN acc.seen ELSE 0]
    IN  IF ~hasRoute
        THEN [d |-> Reply(q0, ContinueReply), cache |-> cache]
        ELSE IF acc.threw
        THEN [d |-> [q0 EXCEPT !.pending = "threw"], cache |-> acc.cache]
        ELSE IF acc.bRepliedWithError
        THEN [d |-> Reply(q0, acc.reply), cache |-> acc.cache]
        ELSE [d |-> runPolicies([q0 EXCEPT !.policiesToRun = acc.list]),
              cache |-> acc.cache]

\* ------------------------------------------------------------------ inputs
PolicyNames == { "a", "b", "c" }

\* policy directories register() is given: file listings in readdir order
Directories ==
    { << File("a", TRUE, "undefined"), File("b", TRUE, "undefined"),
         File("c", TRUE, "onPostHandler") >>,
      << File("a", TRUE, "onPreAuth"), File("b", TRUE, "onPreAuth"),
         File("c", TRUE, "undefined"), File("notes", FALSE, "undefined") >>,
      << File("a", TRUE, "undefined"), File("b", TRUE, "onPostHandler") >> }

\* options.defaultApplyPoint as given to register(): absent or a stage
DefaultOptions == { "undefined", "onPostHandler" }

RouteEntries ==
    { StringEntry("a"), StringEntry("c"), StringEntry("zz"),
      ArrayEntry(<< "a", "b" >>), ArrayEntry(<< "a", "zz" >>),
      Policy("f", "undefined"), Policy("g", "onPreAuth"), Policy("h", "bogus"),
      Aggregate(NameArgs(<< "a", "b" >>), "undefined"),
      Aggregate(NameArgs(<< "a", "c" >>) \o << HandlerArg >>, "undefined"),
      Aggregate(NameArgs(<< "b", "zz" >>), "onPostHandler"),
      NullEntry, OtherEntry }

RECURSIVE SeqsUpTo(_, _)
SeqsUpTo(S, n) ==
    IF n = 0 THEN { << >> }
    ELSE LET shorter == SeqsUpTo(S, n - 1)
         IN  shorter \cup { Append(s, x) : s \in shorter, x \in S }

IsGroup(x) == x.t = "array" \/ x.hasRuns

\* route lists: up to MaxRouteLen entries, at most one of them a group
Routes ==
    { r \in SeqsUpTo(RouteEntries, MaxRouteLen) :
        Cardinality({ k \in DOMAIN r : IsGroup(r[k]) }) <= 1 }

\* routes that run one aggregate of up to three sub-policies among plain
\* inline policies
ParallelEntries ==
    { ArrayEntry(<< "a", "b", "c" >>),
      Aggregate(NameArgs(<< "a", "b", "c" >>), "undefined"),
      Aggregate(NameArgs(<< "a", "c" >>) \o << HandlerArg >>, "undefined"),
      Aggregate(NameArgs(<< "c", "zz" >>), "onPostHandler") }

PlainEntries == { Policy("f", "undefined") }

ParallelRoutes ==
    { r \in SeqsUpTo(ParallelEntries \cup PlainEntries, MaxRouteLen) :
        Cardinality({ k \in DOMAIN r : IsGroup(r[k]) }) = 1 }

\* ----------------------------------------------------------------- actions
\* exports.register with options.policyDirectory set
Init ==
    \E dir \in Directories, opt \in DefaultOptions :
        LET dflt == IF Truthy(opt) THEN opt ELSE FallbackApplyPoint
            r == loadPolicies(EmptyData, NoExt, dflt, dir)
        IN  /\ oData = r.data
            /\ serverExt = r.ext
            /\ defaultApplyPoint = dflt
            /\ memoCache = EmptyMap
            /\ loadErr = r.err
            /\ d = IdleD
            /\ d2 = IdleD
            /\ clearedCache = EmptyMap
            /\ parallelCall = NoCall

\* the host runs the hook installed for oApplyPoint on a request
Handler(oApplyPoint, hasRoute, aRoutePolicies) ==
    /\ d.pending = "idle"
    /\ serverExt[oApplyPoint] > 0
    /\ LET r == handler(d, oData, defaultApplyPoint, memoCache,
                        oApplyPoint, hasRoute, aRoutePolicies)
       IN  /\ d' = r.d
           /\ memoCache' = r.cache
    /\ UNCHANGED << oData, serverExt, defaultApplyPoint, loadErr >>
    /\ UNCHANGED aux

\* the running plain policy of the serial list calls back
PolicyYields ==
    /\ d.pending = "policy"
    /\ \E result \in Outcomes(d.policiesToRun[d.i + 1].name) :
           d' = checkPolicyCallback([d EXCEPT !.pending = "none"], result)
    /\ UNCHANGED << oData, serverExt, defaultApplyPoint, memoCache, loadErr >>
    /\ UNCHANGED aux

\* a running sub-policy of the aggregate calls back: Items.parallel.execute
\* stores the value and, when it was the last one, calls the error handler;
\* an error from the wrapper would fail the assertion in its callback
SubPolicyYields(n) ==
    /\ d.pending = "subs"
    /\ n \in d.outstanding
    /\ \E result \in Outcomes(n) :
           LET w == wrapPolicy(result)
               q1 == [d EXCEPT !.outstanding = @ \ {n},
                               !.results = MapPut(@, n, w.val),
                               !.order = Append(@, [name |-> n, result |-> result])]
           IN  d' = IF w.err # NullV
                    THEN [d EXCEPT !.pending = "threw", !.outstanding = @ \ {n}]
                    ELSE IF q1.outstanding = {}
                    THEN executeCallback(q1, d.policiesToRun[d.i + 1])
                    ELSE q1
    /\ UNCHANGED << oData, serverExt, defaultApplyPoint, memoCache, loadErr >>
    /\ UNCHANGED aux

\* a custom error handler calls next with its decision
CustomHandlerDecides ==
    /\ d.pending = "custom"
    /\ \E result \in Outcomes("errorHandler") :
           d' = checkPolicyCallback([d EXCEPT !.pending = "none"], result)
    /\ UNCHANGED << oData, serverExt, defaultApplyPoint, memoCache, loadErr >>
    /\ UNCHANGED aux

\* the request is over; the next one arrives
NextRequest ==
    /\ d.pending \in { "none", "threw" }
    /\ d' = IdleD
    /\ UNCHANGED << oData, serverExt, defaultApplyPoint, memoCache, loadErr >>
    /\ UNCHANGED aux

Dispatch ==
    /\ d.pending = "idle"
    /\ \E oApplyPoint \in { s \in Stages : serverExt[s] > 0 } :
           \/ Handler(oApplyPoint, FALSE, << >>)
           \/ \E aRoutePolicies \in Routes :
                  Handler(oApplyPoint, TRUE, aRoutePolicies)

DispatchParallel ==
    /\ d.pending = "idle"
    /\ \E oApplyPoint \in { s \in Stages : serverExt[s] > 0 } :
           \E aRoutePolicies \in ParallelRoutes :
               Handler(oApplyPoint, TRUE, aRoutePolicies)

Yield == \E n \in PolicyNames : SubPolicyYields(n)

Next ==
    \/ Dispatch
    \/ PolicyYields
    \/ Yield
    \/ CustomHandlerDecides
    \/ NextRequest

Spec == Init /\ [][Next]_vars

\* the shorter routes of Routes
ShortRoutes ==
    { r \in SeqsUpTo(RouteEntries, MaxFairRouteLen) :
        Cardinality({ k \in DOMAIN r : IsGroup(r[k]) }) <= 1 }

DispatchShort ==
    /\ d.pending = "idle"
    /\ \E oApplyPoint \in { s \in Stages : serverExt[s] > 0 } :
           \/ Handler(oApplyPoint, FALSE, << >>)
           \/ \E aRoutePolicies \in ShortRoutes :
                  Handler(oApplyPoint, TRUE, aRoutePolicies)

NextShort ==
    \/ DispatchShort
    \/ PolicyYields
    \/ Yield
    \/ CustomHandlerDecides
    \/ NextRequest

\* every policy that was started calls back, and so does a custom handler
FairSpec ==
    /\ Init /\ [][NextShort]_vars
    /\ WF_vars(PolicyYields)
    /\ WF_vars(Yield)
    /\ WF_vars(CustomHandlerDecides)

NextParallel ==
    \/ DispatchParallel
    \/ PolicyYields
    \/ Yield
    \/ CustomHandlerDecides
    \/ NextRequest

SpecParallel == Init /\ [][NextParallel]_vars

\* ------------------------------------------- two requests at the same time
\* the callbacks a dispatch in flight is waiting for, as the record each of
\* them leaves: the running plain policy's, a running sub-policy's, or the
\* custom error handler's
Completions(q) ==
    IF q.pending = "policy"
    THEN { checkPolicyCallback([q EXCEPT !.pending = "none"], result) :
             result \in Outcomes(q.policiesToRun[q.i + 1].name) }
    ELSE IF q.pending = "subs"
    THEN UNION { { LET w == wrapPolicy(result)
                       q1 == [q EXCEPT !.outstanding = @ \ {n},
                                       !.results = MapPut(@, n, w.val),
                                       !.order = Append(@, [name |-> n,
                                                            result |-> result])]
                   IN  IF w.err # NullV
                       THEN [q EXCEPT !.pending = "threw", !.outstanding = @ \ {n}]
                       ELSE IF q1.outstanding = {}
                       THEN executeCallback(q1, q.policiesToRun[q.i + 1])
                       ELSE q1 : result \in Outcomes(n) } : n \in q.outstanding }
    ELSE IF q.pending = "custom"
    THEN { checkPolicyCallback([q EXCEPT !.pending = "none"], result) :
             result \in Outcomes("errorHandler") }
    ELSE {}

\* routes of the requests that overlap: a nested array, an aggregate with a
\* custom error handler before a plain policy, a plain policy before a name
ConcurrentRoutes ==
    { << ArrayEntry(<< "a", "b" >>) >>,
      << Aggregate(NameArgs(<< "a", "c" >>) \o << HandlerArg >>, "undefined"),
         Policy("f", "undefined") >>,
      << Policy("f", "undefined"), StringEntry("zz") >> }

\* the host runs a stage's hook on the first request
DispatchFirst ==
    /\ d.pending = "idle"
    /\ \E oApplyPoint \in { s \in Stages : serverExt[s] > 0 } :
           \E aRoutePolicies \in ConcurrentRoutes :
               Handler(oApplyPoint, TRUE, aRoutePolicies)

\* the host runs a stage's hook on the second request
DispatchSecond ==
    /\ d2.pending = "idle"
    /\ \E oApplyPoint \in { s \in Stages : serverExt[s] > 0 } :
           \E aRoutePolicies \in ConcurrentRoutes :
               LET r == handler(d2, oData, defaultApplyPoint, memoCache,
                                oApplyPoint, TRUE, aRoutePolicies)
               IN  /\ d2' = r.d
                   /\ memoCache' = r.cache
    /\ UNCHANGED << oData, serverExt, defaultApplyPoint, loadErr, d,
                    clearedCache, parallelCall >>

\* a policy, sub-policy or error handler of the second request calls back
SecondCompletes ==
    /\ d2' \in Completions(d2)
    /\ UNCHANGED << oData, serverExt, defaultApplyPoint, memoCache, loadErr, d,
                    clearedCache, parallelCall >>

\* the second request is over; another one arrives
NextSecond ==
    /\ d2.pending \in { "none", "threw" }
    /\ d2' = IdleD
    /\ UNCHANGED << oData, serverExt, defaultApplyPoint, memoCache, loadErr, d,
                    clearedCache, parallelCall >>

NextConcurrent ==
    \/ DispatchFirst
    \/ PolicyYields
    \/ Yield
    \/ CustomHandlerDecides
    \/ NextRequest
    \/ DispatchSecond
    \/ SecondCompletes
    \/ NextSecond

SpecConcurrent == Init /\ [][NextConcurrent]_vars

\* ------------------------------------------- registration and reset alone
\* files loadPolicies may be handed, one addPolicy at a time
Files ==
    { File(stem, TRUE, ap) :
        stem \in PolicyNames,
        ap \in { "undefined", "onPostHandler", "bogus", "" } }
    \cup { File("notes", FALSE, "undefined") }

\* exports.register without a policy directory
InitRegistry ==
    /\ oData = EmptyData
    /\ serverExt = NoExt
    /\ defaultApplyPoint \in
           { IF Truthy(opt) THEN opt ELSE FallbackApplyPoint : opt \in DefaultOptions }
    /\ memoCache = EmptyMap
    /\ loadErr = NullV
    /\ d = IdleD
    /\ d2 = IdleD
    /\ clearedCache = EmptyMap
    /\ parallelCall = NoCall

\* loadPolicies on a directory holding the one file
AddPolicy(file) ==
    LET r == loadPolicies(oData, serverExt, defaultApplyPoint, << file >>)
    IN  /\ \A s \in Stages : r.ext[s] <= MaxExt
        /\ oData' = r.data
        /\ serverExt' = r.ext
        /\ loadErr' = r.err
        /\ UNCHANGED << defaultApplyPoint, memoCache, d >>
        /\ UNCHANGED aux

\* (variant: the buckets are not emptied)
resetData_KeepBuckets(data) == [EmptyData EXCEPT !.points = data.points]

\* oData = {names: [], rawPolicies: {}, setHandlers: {}} and six empty buckets
resetData(data) == EmptyData

\* (variant: the memoize cache outlives the reset)
resetCache_Keep(cache) == cache

\* determineAggregateApplyPoint.cache.clear()
resetCache(cache) == EmptyMap

\* reset()
Reset ==
    /\ oData' = resetData(oData)
    /\ memoCache' = resetCache(memoCache)
    /\ clearedCache' = memoCache
    /\ UNCHANGED << serverExt, defaultApplyPoint, loadErr, d, d2, parallelCall >>

Load == \E file \in Files : AddPolicy(file)

NextRegistry ==
    \/ Load
    \/ Reset

SpecRegistry == InitRegistry /\ [][NextRegistry]_vars

\* ------------------------------------------------- calls of exports.parallel
\* argument lists of exports.parallel: policy names, and a callable in any
\* position
ParallelArgs ==
    SeqsUpTo({ NameArg(n) : n \in PolicyNames } \cup { HandlerArg }, MaxArgs)

\* a route's author calls exports.parallel(...args)
CallParallel(args) ==
    LET r == parallel(args)
    IN  /\ parallelCall' = [made |-> TRUE, args |-> args, ok |-> r.ok, fn |-> r.fn]
        /\ UNCHANGED << oData, serverExt, defaultApplyPoint, memoCache, loadErr,
                        d, d2, clearedCache >>

NextParallelCall == \E args \in ParallelArgs : CallParallel(args)

SpecParallelCall == InitRegistry /\ [][NextParallelCall]_vars

\* ------------------------------------------------------ registration alone
\* loadPolicies is called again and again on the one server, reset() never
SpecLoad == InitRegistry /\ [][Load]_vars

\* ---------------------------------------- registration, resolve and reset
\* policy files with a stage of their own or none
ResolverFiles ==
    { File(stem, TRUE, ap) :
        stem \in { "a", "b" }, ap \in { "undefined", "onPostHandler" } }

\* the name arrays the resolver is called with: registered names and a name
\* no file has, in any order, repeated or not
NameSeqs == SeqsUpTo({ "a", "b", "zz" }, 2)

\* a handler calls determineAggregateApplyPoint on a nested array or on the
\* runs of an aggregate
Resolve(aPolicyNames) ==
    LET r == determineAggregateApplyPoint(oData, memoCache, aPolicyNames)
    IN  /\ memoCache' = r.cache
        /\ UNCHANGED << oData, serverExt, defaultApplyPoint, loadErr, d >>
        /\ UNCHANGED aux

LoadResolver == \E file \in ResolverFiles : AddPolicy(file)

ResolveSome == \E aPolicyNames \in NameSeqs : Resolve(aPolicyNames)

NextResolver ==
    \/ LoadResolver
    \/ ResolveSome
    \/ Reset

SpecResolver == InitRegistry /\ [][NextResolver]_vars

\* the same with the resolver called on a single name and on a pair only
FewNameSeqs == { << "a" >>, << "b", "a" >> }

ResolveFew == \E aPolicyNames \in FewNameSeqs : Resolve(aPolicyNames)

NextReset ==
    \/ LoadResolver
    \/ ResolveFew
    \/ Reset

SpecReset == InitRegistry /\ [][NextReset]_vars

\* ==================================================================== claims
Dispatched == d.pending # "idle"

Registered(n) == n \in Range(oData.names)

\* entries that end the dispatch with a fault while the list is classified
EntryShortCircuits(x) ==
    \/ x.t = "string" /\ ~Registered(x.name)
    \/ x.t = "function" /\ Truthy(x.applyPoint) /\ x.applyPoint \notin Stages
    \/ x.t = "other"

\* the single stage whose bucket holds every name of ns, if there is one
CommonStages(ns) ==
    { s \in Stages : \A k \in DOMAIN ns : ns[k] \in DOMAIN oData.points[s] }

\* groups whose stage has to be inferred
Inferred(x) == x.t = "array" \/ (x.hasRuns /\ ~Truthy(x.applyPoint))

Resolves(ns) == ns # << >> /\ IsUniq(ns) /\ CommonStages(ns) # {}

\* C1: an unregistered name that is the first short-circuiting entry of the
\* route ends the dispatch with the 'Missing policy' not-implemented
\* response and no policy is executed.
C1_MissingPolicyReply ==
    \A k \in DOMAIN d.route :
        ( /\ Dispatched
          /\ d.hasRoute
          /\ d.route[k].t = "string"
          /\ ~Registered(d.route[k].name)
          /\ \A j \in 1..(k - 1) :
                 /\ ~EntryShortCircuits(d.route[j])
                 /\ Inferred(d.route[j]) => Resolves(d.route[j].runs) )
        => /\ d.replies = << notImplemented(d.route[k].name) >>
           /\ d.invoked = << >>

\* the policies of the stage's bucket that the names of the route select,
\* in the route's order
RECURSIVE BoundHere(_, _)
BoundHere(route, stage) ==
    IF route = << >> THEN << >>
    ELSE LET x == Head(route)
         IN  IF x.t = "string" /\ x.name \in DOMAIN oData.points[stage]
             THEN << oData.points[stage][x.name] >> \o BoundHere(Tail(route), stage)
             ELSE BoundHere(Tail(route), stage)

\* C2: a route made only of registered names gets no fault response from
\* the classification, and exactly the policies bound to the dispatcher's
\* stage reach the serial executor, in declared order.
C2_RegisteredNamesRun ==
    ( /\ Dispatched
      /\ d.hasRoute
      /\ \A k \in DOMAIN d.route :
             d.route[k].t = "string" /\ Registered(d.route[k].name) )
    => /\ \A k \in DOMAIN d.replies :
              d.replies[k].type \notin { "notImplemented", "badImplementation" }
       /\ d.ranPolicies
       /\ d.policiesToRun = BoundHere(d.route, d.stage)

\* the outcomes checkPolicy's callback was handed for position k
YieldsAt(k) == SelectSeq(d.yields, LAMBDA y : y.at = k)

HandlerCallsAt(k) == SelectSeq(d.handlerCalls, LAMBDA h : h.at = k)

OneOutcomeEach == \A k \in DOMAIN d.policiesToRun : Len(YieldsAt(k)) <= 1

\* what the reply interface is given for a failing outcome
Surfaced(result) ==
    IF result.err # NullV THEN result.err ELSE forbidden(result.message)

\* C3: runPolicies, on a list whose policies each yield one outcome, invokes
\* them in list order, each after its predecessor continued; nothing is
\* invoked after the first reject or fail, which is the one reply (the
\* forbidden denial with the policy's message, or the policy's error); a
\* list that continued throughout gets the one 'continue'.
C3_SerialInOrder ==
    (d.ranPolicies /\ OneOutcomeEach)
    => /\ \A k \in DOMAIN d.invoked :
              /\ d.invoked[k] = k
              /\ k > 1 => YieldsAt(k - 1) = << [at |-> k - 1, result |-> Continue] >>
       /\ \A k \in DOMAIN d.yields :
              Failing(d.yields[k].result)
              => /\ Len(d.invoked) = d.yields[k].at
                 /\ d.replies = << Surfaced(d.yields[k].result) >>
       /\ (\A k \in DOMAIN d.yields : ~Failing(d.yields[k].result))
          => d.replies = IF Len(d.yields) = Len(d.policiesToRun)
                         THEN << ContinueReply >>
                         ELSE << >>

\* C3 witness: of three policies the first continued and the second
\* refused; the third was never invoked and the reply is the denial
C3_Witness ==
    /\ d.ranPolicies
    /\ Len(d.policiesToRun) = 3
    /\ \A k \in 1..3 : d.policiesToRun[k].handler = "none"
    /\ d.yields = << [at |-> 1, result |-> Continue],
                     [at |-> 2, result |-> Reject(d.policiesToRun[2].name)] >>
    /\ d.invoked = << 1, 2 >>
    /\ d.replies = << [type |-> "forbidden", by |-> d.policiesToRun[2].name] >>

\* C4: an aggregate with the default error handler hands its caller one
\* outcome per invocation, failing exactly when a sub-policy failed, and
\* when it fails inside a serial list no later policy is invoked.
C4_OneOutcomePerAggregate ==
    \A j \in DOMAIN d.handlerCalls :
        LET h == d.handlerCalls[j]
            policy == d.policiesToRun[h.at]
        IN  (policy.handler = "default" /\ Range(policy.runs) \subseteq DOMAIN h.results)
            => /\ Len(YieldsAt(h.at)) = 1
               /\ Failing(YieldsAt(h.at)[1].result)
                      <=> \E n \in DOMAIN h.results : Failing(h.results[n])
               /\ Failing(YieldsAt(h.at)[1].result)
                      => \A k \in DOMAIN d.invoked : d.invoked[k] <= h.at

\* C5: with the default error handler, the first outcome an aggregate
\* reports when some sub-policy failed is that of the earliest-listed
\* failing sub-policy, in whatever order the sub-policies called back.
C5_EarliestListedFailure ==
    \A j \in DOMAIN d.handlerCalls :
        LET h == d.handlerCalls[j]
            policy == d.policiesToRun[h.at]
            failing == { k \in DOMAIN policy.runs : Failing(h.results[policy.runs[k]]) }
            earliest == CHOOSE k \in failing : \A m \in failing : k <= m
        IN  ( /\ policy.handler = "default"
              /\ Range(policy.runs) \subseteq DOMAIN h.results
              /\ failing # {} )
            => /\ YieldsAt(h.at) # << >>
               /\ YieldsAt(h.at)[1].result = h.results[policy.runs[earliest]]

\* C5 witness: of [a, b, c], c refused first, then b continued, then a
\* refused: a's refusal is what the aggregate reported first
C5_Witness ==
    \E j \in DOMAIN d.handlerCalls :
        LET h == d.handlerCalls[j]
        IN  /\ d.policiesToRun[h.at].handler = "default"
            /\ d.policiesToRun[h.at].runs = << "a", "b", "c" >>
            /\ h.order = << [name |-> "c", result |-> Reject("c")],
                            [name |-> "b", result |-> Continue],
                            [name |-> "a", result |-> Reject("a")] >>
            /\ YieldsAt(h.at)[1].result = Reject("a")

\* the registered policies an aggregate starts
Picked(policy) == Range(policy.runs) \cap DOMAIN oData.rawPolicies

\* C6: an aggregate's error handler is called once per invocation, after
\* every sub-policy has called back; each sub-policy's outcome, an error
\* included, is stored as its result, and while sub-policies are running
\* none of the others has been dropped.
C6_HandlerAfterAllOutcomes ==
    /\ \A j \in DOMAIN d.handlerCalls :
           LET h == d.handlerCalls[j]
               picked == Picked(d.policiesToRun[h.at])
           IN  /\ h.left = {}
               /\ DOMAIN h.results = picked
               /\ Len(h.order) = Cardinality(picked)
               /\ \A k \in DOMAIN h.order :
                      /\ h.order[k].name \in picked
                      /\ h.results[h.order[k].name] = h.order[k].result
    /\ \A k \in DOMAIN d.invoked :
           LET at == d.invoked[k]
           IN  d.policiesToRun[at].handler # "none"
               => IF d.pending = "subs" /\ d.i + 1 = at
                  THEN /\ HandlerCallsAt(at) = << >>
                       /\ d.outstanding # {}
                       /\ d.outstanding \cap DOMAIN d.results = {}
                       /\ d.outstanding \cup DOMAIN d.results
                              = Picked(d.policiesToRun[at])
                  ELSE Len(HandlerCallsAt(at)) = 1

\* C6 witness: the first sub-policy to call back failed with an error, two
\* more called back after it, and then the handler got all three results
C6_Witness ==
    \E j \in DOMAIN d.handlerCalls :
        LET h == d.handlerCalls[j]
        IN  /\ Len(h.order) = 3
            /\ h.order[1].result.err # NullV
            /\ h.results[h.order[1].name].err = h.order[1].result.err
            /\ h.left = {}

\* C7: a dispatch makes at most one terminal action on the reply interface;
\* a reply made while classifying is a fault made for the last entry looked
\* at, and then no list is built and runPolicies does not run; a route
\* without policies gets the one 'continue'.
C7_AtMostOneTerminalAction ==
    /\ Len(d.replies) <= 1
    /\ (Dispatched /\ ~d.hasRoute)
       => d.replies = << ContinueReply >> /\ ~d.ranPolicies
    /\ (Dispatched /\ d.hasRoute /\ ~d.ranPolicies /\ d.replies # << >>)
       => /\ d.replies[1].type \in { "notImplemented", "badImplementation" }
          /\ d.classified \in DOMAIN d.route
          /\ d.route[d.classified].t \in { "string", "function", "other" }
          /\ d.policiesToRun = << >>
          /\ d.invoked = << >>
          /\ d.yields = << >>
    /\ (Dispatched /\ d.hasRoute /\ d.ranPolicies)
       => d.classified = Len(d.route)

\* C7 witness: an aggregate handed on two outcomes, and there is one reply
C7_Witness ==
    /\ d.ranPolicies
    /\ \E k \in DOMAIN d.policiesToRun : Len(YieldsAt(k)) = 2
    /\ d.i = Len(d.policiesToRun)
    /\ Len(d.replies) = 1

RouteResolvable ==
    \A k \in DOMAIN d.route :
        IsGroup(d.route[k])
        => /\ \A j \in DOMAIN d.route[k].runs : Registered(d.route[k].runs[j])
           /\ Inferred(d.route[k]) => Resolves(d.route[k].runs)

C9_AggregateRunsInItsStage ==
    (Dispatched /\ d.hasRoute /\ d.ranPolicies)
    => \A k \in DOMAIN d.route :
           LET x == d.route[k]
               fn == IF x.t = "array"
                     THEN [x EXCEPT !.t = "function", !.name = "aggregatePolicy",
                                    !.hasRuns = TRUE, !.handler = "default"]
                     ELSE x
           IN  ( /\ Inferred(x)
                 /\ Len(x.runs) = 2
                 /\ x.runs[1] # x.runs[2]
                 /\ CommonStages(x.runs) # {} )
               => (fn \in Range(d.policiesToRun) <=> d.stage \in CommonStages(x.runs))

\* C9 witness: the nested array [a, b], both registered under a stage that
\* is not the default stage, was put on the list by that stage's handler
C9_Witness ==
    /\ d.ranPolicies
    /\ d.stage # defaultApplyPoint
    /\ \E k \in DOMAIN d.route :
           /\ d.route[k] = ArrayEntry(<< "a", "b" >>)
           /\ d.stage \in CommonStages(d.route[k].runs)
    /\ \E k \in DOMAIN d.policiesToRun :
           d.policiesToRun[k].runs = << "a", "b" >>

\* C10: registering a name that is already registered fails with the
\* duplicate-policy error and leaves names, rawPolicies, the buckets,
\* setHandlers and the hooks on the host as they were.
C10_DuplicateLeavesRegistry ==
    [][ \A file \in Files :
            (file.js /\ Registered(file.stem) /\ AddPolicy(file))
            => /\ loadErr' = DuplicateError(file.stem)
               /\ oData' = oData
               /\ serverExt' = serverExt ]_vars

\* C10 witness: a registration of the registered name a has just failed
C10_Witness ==
    /\ Registered("a")
    /\ Registered("b")
    /\ loadErr = DuplicateError("a")

\* file lists that register each of their names once, under any stage
FileLists ==
    { files \in SeqsUpTo(ResolverFiles, 2) :
        /\ files # << >>
        /\ \A j, k \in DOMAIN files : files[j].stem = files[k].stem => j = k }

\* those that register names of `names` again
Reregistrations(names) ==
    { files \in FileLists : \A k \in DOMAIN files : files[k].stem \in names }

\* the stage a file's policy is to be found under
StageOfFile(file) ==
    IF Truthy(file.policy.applyPoint) THEN file.policy.applyPoint
    ELSE defaultApplyPoint

\* C11: after reset(), registering again names that were registered gives
\* no duplicate-policy error, and the resolver then answers every name
\* array from the new registrations: the stage the files of all its names
\* now declare, whatever the cache held for that array before the reset.
C11_ResetThenRegisterAgain ==
    [][ Reset =>
          \A files \in Reregistrations(Range(oData.names)) :
              LET r == loadPolicies(oData', serverExt', defaultApplyPoint', files)
              IN  /\ r.err = NullV
                  /\ \A ns \in NameSeqs :
                         LET got == determineAggregateApplyPoint(r.data, memoCache', ns)
                             mine == { k \in DOMAIN files : files[k].stem \in Range(ns) }
                         IN  ( /\ ns # << >>
                               /\ IsUniq(ns)
                               /\ \A j \in DOMAIN ns :
                                      \E k \in mine : files[k].stem = ns[j] )
                             => \A k \in mine :
                                    IF \A m \in mine :
                                           StageOfFile(files[m]) = StageOfFile(files[k])
                                    THEN got.ok /\ got.applyPoint = StageOfFile(files[k])
                                    ELSE ~got.ok ]_vars

\* C11 witness: a name array the cache held before the last reset has been
\* resolved again after it, to another stage
C11_Witness ==
    \E ns \in DOMAIN clearedCache :
        /\ ns \in DOMAIN memoCache
        /\ memoCache[ns] # clearedCache[ns]
        /\ \A k \in DOMAIN ns : Registered(ns[k])

\* C12: while policies are registered and reset() is not called, the host
\* holds one hook for each stage a policy has been stored under, installed
\* by the registration that stored the first one, and none for the others.
C12_HookWithFirstPolicy ==
    /\ \A s \in Stages :
           serverExt[s] = IF DOMAIN oData.points[s] = {} THEN 0 ELSE 1
    /\ \A s \in Stages : s \in oData.setHandlers <=> serverExt[s] = 1

\* C12 witness: a stage holds two policies and has its one hook, another
\* stage holds one, and a third stage has neither policy nor hook
C12_Witness ==
    \E s, t, u \in Stages :
        /\ Cardinality(DOMAIN oData.points[s]) = 2
        /\ serverExt[s] = 1
        /\ Cardinality(DOMAIN oData.points[t]) = 1
        /\ serverExt[t] = 1
        /\ DOMAIN oData.points[u] = {}
        /\ serverExt[u] = 0

\* the policy names of a call: its arguments but a callable in last place
NamesGiven(args) ==
    IF args # << >> /\ args[Len(args)].t = "function"
    THEN SubSeq(args, 1, Len(args) - 1)
    ELSE args

\* C13: a call of parallel() that is given no name (a lone error handler
\* included) or the same name twice fails; any other call returns an
\* aggregate whose runs are the names in the order given, with a callable
\* in last place as its error handler and not among the runs.
C13_ParallelRequiresNames ==
    LET args == parallelCall.args
        names == NamesGiven(args)
    IN  (parallelCall.made /\ \A k \in DOMAIN names : names[k].t = "string")
        => IF names = << >> \/ \E j, k \in DOMAIN names :
                                   j # k /\ names[j].name = names[k].name
           THEN ~parallelCall.ok
           ELSE /\ parallelCall.ok
                /\ parallelCall.fn.runs = [k \in DOMAIN names |-> names[k].name]
                /\ parallelCall.fn.handler =
                       IF Len(names) < Len(args) THEN "custom" ELSE "default"

\* what a handler calling the resolver on ns now would get
Answer(ns) ==
    LET r == determineAggregateApplyPoint(oData, memoCache, ns)
    IN  [ok |-> r.ok, applyPoint |-> r.applyPoint]

\* s and t list the same set of names
IsPermutation(s, t) ==
    /\ IsUniq(s) /\ IsUniq(t)
    /\ Len(s) = Len(t)
    /\ Range(s) = Range(t)

\* C14: whatever has been registered and whatever the cache holds, the
\* resolver gives two orderings of the same nonempty set of names the same
\* answer: the same stage, or a failure for both.
C14_OrderInsensitive ==
    \A s, t \in NameSeqs :
        (s # << >> /\ IsPermutation(s, t)) => Answer(s) = Answer(t)

\* C14 witness: [a, b] is in the cache, [b, a] is not, and [b, a] resolves
\* to the stage cached for [a, b]
C14_Witness ==
    /\ << "a", "b" >> \in DOMAIN memoCache
    /\ << "b", "a" >> \notin DOMAIN memoCache
    /\ Answer(<< "b", "a" >>) = [ok |-> TRUE, applyPoint |-> memoCache[<< "a", "b" >>]]

\* the stages under which data holds a policy named n
BucketsOf(data, n) == { s \in Stages : n \in DOMAIN data.points[s] }

\* C15: registering a new name with no declared stage stores the policy
\* under the default stage; with a declared stage that is not one of the
\* six stages the registration fails with the incorrect-applyPoint error
\* and the registry stays as it was; with one of the six stages declared the
\* policy is stored under that stage and no other.
C15_StageOfRegistration ==
    [][ \A file \in Files :
            LET ap == file.policy.applyPoint
                n == file.stem
            IN  (file.js /\ ~Registered(n) /\ AddPolicy(file))
                => IF ap = "undefined"
                   THEN /\ loadErr' = NullV
                        /\ BucketsOf(oData', n) = { defaultApplyPoint }
                        /\ oData'.points[defaultApplyPoint][n] = file.policy
                   ELSE IF ap \notin Stages
                   THEN /\ loadErr' = ApplyPointError(ap)
                        /\ oData' = oData
                        /\ serverExt' = serverExt
                   ELSE /\ loadErr' = NullV
                        /\ BucketsOf(oData', n) = { ap }
                        /\ oData'.points[ap][n] = file.policy ]_vars

\* a failed call of the resolver changes nothing in the cache
FailureNotStored ==
    \/ memoCache' = memoCache
    \/ \A ns \in NameSeqs : (Resolve(ns) /\ ~Answer(ns).ok) => memoCache' = memoCache

\* C16 as claimed: the resolver fails on an empty array, on an array with
\* an unregistered name and on an array whose names are not in one bucket;
\* on every other array it returns the one stage whose bucket holds all the
\* names; a failed call is not stored in the cache.
C16_FailsOrReturnsStage ==
    /\ [](\A ns \in NameSeqs :
             IF \/ ns = << >>
                \/ \E k \in DOMAIN ns : ~Registered(ns[k])
                \/ CommonStages(ns) = {}
             THEN ~Answer(ns).ok
             ELSE /\ Answer(ns).ok
                  /\ CommonStages(ns) = { Answer(ns).applyPoint })
    /\ [][FailureNotStored]_vars

\* C16 amended: the resolver fails on an empty array, on an array that
\* repeats a name, on an array with an unregistered name and on an array
\* whose names are not in one bucket; on every other array it returns the
\* one stage whose bucket holds all the names; a failed call is not stored
\* in the cache.
C16_FailsOnRepeatsToo ==
    /\ [](\A ns \in NameSeqs :
             IF \/ ns = << >>
                \/ ~IsUniq(ns)
                \/ \E k \in DOMAIN ns : ~Registered(ns[k])
                \/ CommonStages(ns) = {}
             THEN ~Answer(ns).ok
             ELSE /\ Answer(ns).ok
                  /\ CommonStages(ns) = { Answer(ns).applyPoint })
    /\ [][FailureNotStored]_vars

\* C16 witness: a and b are registered under two stages; [a] has been
\* resolved and is in the cache, [a, b] and [a, a] fail and are not
C16_Witness ==
    /\ Registered("a") /\ Registered("b")
    /\ CommonStages(<< "a", "b" >>) = {}
    /\ << "a" >> \in DOMAIN memoCache
    /\ ~Answer(<< "a", "b" >>).ok
    /\ ~Answer(<< "a", "a" >>).ok
    /\ DOMAIN memoCache \cap { << "a", "b" >>, << "a", "a" >> } = {}

\* C17: after any registrations, failed ones included, and resets, the
\* list of names has no duplicates, every name of it is a key of exactly
\* one bucket and of rawPolicies, with the same policy in both, and every
\* key of a bucket is in the list of names.
C17_RegistryConsistent ==
    /\ IsUniq(oData.names)
    /\ \A n \in Range(oData.names) :
           /\ Cardinality(BucketsOf(oData, n)) = 1
           /\ n \in DOMAIN oData.rawPolicies
           /\ \A s \in BucketsOf(oData, n) :
                  oData.points[s][n] = oData.rawPolicies[n]
    /\ \A s \in Stages : DOMAIN oData.points[s] \subseteq Range(oData.names)
    /\ DOMAIN oData.rawPolicies \subseteq Range(oData.names)

\* C17 witness: after a reset (a hook has been installed twice) three names
\* are registered under two stages and the last registration failed
C17_Witness ==
    /\ Len(oData.names) = 3
    /\ \E s \in Stages : serverExt[s] = 2
    /\ \E s, t \in Stages :
           s # t /\ DOMAIN oData.points[s] # {} /\ DOMAIN oData.points[t] # {}
    /\ loadErr # NullV

\* C18: whatever registrations and resets were made on the one server,
\* server.ext has been called at most once for each stage.
C18_HookInstalledOnce ==
    \A s \in Stages : serverExt[s] <= 1

\* C19: after any registrations, resolver calls and resets, each entry of
\* the memoize cache is the stage the resolver's function, run afresh on
\* the entry's name array against the registry as it is now, returns.
C19_CacheIsTransparent ==
    \A key \in DOMAIN memoCache :
        resolveApplyPoint(oData, key) = [ok |-> TRUE, applyPoint |-> memoCache[key]]

\* C19 witness: entries were dropped by a reset, and the cache holds [a]
\* and [b, a] again while [b] and [a, b] were not resolved since
C19_Witness ==
    /\ clearedCache # EmptyMap
    /\ DOMAIN memoCache = { << "a" >>, << "b", "a" >> }

\* a step from q to q1 that a dispatch makes when it is the only request
\* and the memoize cache is empty: the handler's run on the route, a policy,
\* sub-policy or error handler calling back, or the end of the request
SoloStep(q, q1) ==
    \/ /\ q.pending = "idle"
       /\ q1 = handler(IdleD, oData, defaultApplyPoint, EmptyMap,
                       q1.stage, q1.hasRoute, q1.route).d
    \/ q1 \in Completions(q)
    \/ q.pending \in { "none", "threw" } /\ q1 = IdleD

\* C20: with two requests in flight and their policies calling back in
\* any order, no step changes names, rawPolicies or the buckets, a step
\* changes one request only, and it takes that request where the same step
\* takes a request dispatched alone: the same list to run, the same
\* invocations and the same reply.
C20_DispatchesDoNotInterfere ==
    [][ /\ oData' = oData
        /\ d' = d \/ d2' = d2
        /\ d' # d => SoloStep(d, d')
        /\ d2' # d2 => SoloStep(d2, d2') ]_vars

\* C20 witness: the first request ran the nested array [a, b] to its one
\* reply while the aggregate [a, c] of the second, dispatched from the
\* cache the two share, had one of its two sub-policies back
C20_Witness ==
    /\ d.pending = "none"
    /\ d.route = << ArrayEntry(<< "a", "b" >>) >>
    /\ Len(d.handlerCalls) = 1
    /\ Len(d.replies) = 1
    /\ d2.pending = "subs"
    /\ d2.route # d.route
    /\ Len(d2.order) = 1
    /\ DOMAIN memoCache = { << "a", "b" >>, << "a", "c" >> }

====
